---- MODULE Spec2Model ----
(***************************************************************************)
(* Document-at-a-time scoring (practicum-1/4_Daat_scoring.ipynb).          *)
(*                                                                         *)
(* The notebook builds an inverted index, a document-length table and the  *)
(* document normalizers from a term-document matrix, and then scores       *)
(* queries with score_dt.  Python dictionaries are functions whose DOMAIN  *)
(* is the key set; Python lists of postings are sequences of <<doc, freq>> *)
(* pairs; document vectors are functions over 0..N-1.                      *)
(*                                                                         *)
(* Floats are fixed-point integers: weights (idf, tf, tfidf, norms) are in *)
(* thousandths, their squares and products in millionths.  The signs and   *)
(* the zeros of every quantity are exact within the bounds of the model.   *)
(***************************************************************************)
EXTENDS Integers, Sequences, FiniteSets

VARIABLES td_matrix, NUM_DOCS, inv_idx, doclen, dnorm,
          query, qry, tfidf_q, qnorm, plists, scores, doc_id, pc, err, first

\* td_matrix, NUM_DOCS, inv_idx, doclen, dnorm: the notebook's globals.
\* query, qry, tfidf_q, qnorm, plists, scores, doc_id: the locals of the running
\* score_dt call.  pc: "idle" before any call, "sweep" in the document loop,
\* "returned" or "raised" once the call has ended; err: the exception raised.
\* first: the query and the outcome of the first call that ended (history).
vars == <<td_matrix, NUM_DOCS, inv_idx, doclen, dnorm,
          query, qry, tfidf_q, qnorm, plists, scores, doc_id, pc, err, first>>

globals == <<td_matrix, NUM_DOCS, inv_idx, doclen, dnorm>>

\* ---------------------------------------------------------------- bounds
MaxDocs == 2
MaxFreq == 1
MaxQueryLen == 1

\* ---------------------------------------------------------------- inputs
Vocab == {"a", "b"}
Unknown == "zzz"

ExampleMatrix ==
    [beijing |-> [d \in 0..4 |-> <<0, 1, 0, 0, 1>>[d + 1]],
     dish    |-> [d \in 0..4 |-> <<0, 1, 0, 0, 1>>[d + 1]],
     duck    |-> [d \in 0..4 |-> <<3, 2, 2, 0, 1>>[d + 1]],
     rabbit  |-> [d \in 0..4 |-> <<0, 0, 1, 1, 0>>[d + 1]],
     recipe  |-> [d \in 0..4 |-> <<0, 0, 1, 1, 1>>[d + 1]],
     roast   |-> [d \in 0..4 |-> <<0, 0, 0, 0, 0>>[d + 1]]]

ExampleQuery == <<"beijing", "duck", "recipe">>

ExampleQueries ==
    {ExampleQuery, <<>>, <<"roast">>, <<"rabbit">>, <<"duck", "duck", "recipe">>,
     <<Unknown, "duck">>}

Matrices ==
    {[n |-> 5, td |-> ExampleMatrix]} \cup
    UNION {{[n |-> k, td |-> m] : m \in [Vocab -> [0..(k - 1) -> 0..MaxFreq]]}
              : k \in 1..MaxDocs}

GenericQueries ==
    UNION {[1..k -> Vocab \cup {Unknown}] : k \in 0..MaxQueryLen}

Queries == IF td_matrix = ExampleMatrix THEN ExampleQueries ELSE GenericQueries

\* ------------------------------------------------------------ arithmetic
RECURSIVE SumSet(_, _)
SumSet(S, f) ==
    IF S = {} THEN 0
    ELSE LET x == CHOOSE y \in S : TRUE IN f[x] + SumSet(S \ {x}, f)

RECURSIVE SqrtSearch(_, _, _)
SqrtSearch(n, lo, hi) ==
    IF lo = hi THEN lo
    ELSE LET mid == (lo + hi + 1) \div 2
         IN  IF mid * mid <= n THEN SqrtSearch(n, mid, hi)
                               ELSE SqrtSearch(n, lo, mid - 1)

\* math.sqrt of a value in millionths, in thousandths
sqrt(n) == SqrtSearch(n, 0, IF n < 46340 THEN n ELSE 46340)

\* 1000 * ln(k), k = 1..8
LnMilli == <<0, 693, 1099, 1386, 1609, 1792, 1946, 2079>>

\* math.log(n / d), in thousandths
Log(n, d) == LnMilli[n] - LnMilli[d]

\* a / b of two integers, in thousandths
TrueDiv(a, b) == (a * 1000) \div b

\* the product of two values in thousandths, in thousandths
Mul(x, y) == (x * y) \div 1000

\* ---------------------------------------------------------- index build
RECURSIVE Enumerate(_, _, _)
Enumerate(vec, d, n) ==
    IF d = n THEN <<>>
    ELSE (IF vec[d] > 0 THEN <<<<d, vec[d]>>>> ELSE <<>>) \o Enumerate(vec, d + 1, n)

BuildInvIdx(m, n) == [term \in DOMAIN m |-> Enumerate(m[term], 0, n)]

BuildDoclen(m, n) ==
    [d \in {e \in 0..(n - 1) : \E term \in DOMAIN m : m[term][e] > 0} |->
        SumSet(DOMAIN m, [term \in DOMAIN m |-> m[term][d]])]

\* InvIndex.postings
postings(term) == IF term \in DOMAIN inv_idx THEN inv_idx[term] ELSE <<>>

\* add-one smoothing: log((N + 1) / (df + 1)), with no zero-df case
idf_smoothed(term) == Log(NUM_DOCS + 1, Len(postings(term)) + 1)

\* the ratio inverted: log(df / N)
idf_inverted(term) ==
    IF Len(postings(term)) > 0 THEN Log(Len(postings(term)), NUM_DOCS) ELSE 0

idf(term) ==
    IF Len(postings(term)) > 0 THEN Log(NUM_DOCS, Len(postings(term))) ELSE 0

\* the (1 + idf) weighting variant
tfidf_plus_one(freq, d, term) == Mul(TrueDiv(freq, doclen[d]), 1000 + idf(term))

\* tfidf = freq / doclen[doc_id] * idf(term)
tfidf(freq, d, term) == Mul(TrueDiv(freq, doclen[d]), idf(term))

BuildDnorm ==
    [d \in {e \in 0..(NUM_DOCS - 1) : \E term \in DOMAIN td_matrix : td_matrix[term][e] > 0} |->
        sqrt(SumSet({term \in DOMAIN td_matrix : td_matrix[term][d] > 0},
                    [term \in DOMAIN td_matrix |->
                        LET w == tfidf(td_matrix[term][d], d, term) IN w * w]))]

\* ------------------------------------------------------------- score_dt
Range(s) == {s[i] : i \in 1..Len(s)}

\* dict(Counter(query))
Counter(q) == [term \in Range(q) |-> Cardinality({i \in 1..Len(q) : q[i] = term})]

QueryTfidf(q) ==
    LET c == Counter(q)
    IN  [term \in DOMAIN c |-> Mul(TrueDiv(c[term], Len(q)), idf(term))]

\* qnorm = math.sqrt(sum of tfidf_q[term]**2)
QueryNorm(w) == sqrt(SumSet(DOMAIN w, [term \in DOMAIN w |-> w[term] * w[term]]))

\* f_d[term] = 0 (the posting lists are not read)
f_d == [term \in DOMAIN qry |-> 0]

\* tfidf_d = 0
tfidf_d == 0

\* score += tfidf_q[term] * tfidf_d, over the query terms
score == SumSet(DOMAIN qry, [term \in DOMAIN qry |-> tfidf_q[term] * tfidf_d])

EmptyDict == [x \in {} |-> 0]

Init ==
    /\ \E i \in Matrices :
          /\ td_matrix = i.td
          /\ NUM_DOCS = i.n
    /\ inv_idx = BuildInvIdx(td_matrix, NUM_DOCS)
    /\ doclen = BuildDoclen(td_matrix, NUM_DOCS)
    /\ dnorm = BuildDnorm
    /\ query = <<>>
    /\ qry = EmptyDict
    /\ tfidf_q = EmptyDict
    /\ qnorm = 0
    /\ plists = EmptyDict
    /\ scores = EmptyDict
    /\ doc_id = 0
    /\ pc = "idle"
    /\ err = "None"
    /\ first = [set |-> FALSE, query |-> <<>>, pc |-> "idle", err |-> "None",
                scores |-> EmptyDict]

Finished == pc \in {"returned", "raised"}

\* score_dt(q, idx) up to the document loop
Call(q) ==
    /\ pc = "idle" \/ Finished
    /\ query' = q
    /\ qry' = Counter(q)
    /\ tfidf_q' = QueryTfidf(q)
    /\ qnorm' = QueryNorm(tfidf_q')
    /\ plists' = [term \in DOMAIN qry' |-> postings(term)]
    /\ scores' = EmptyDict
    /\ doc_id' = 0
    /\ pc' = "sweep"
    /\ err' = "None"
    /\ first' = IF Finished /\ ~first.set
                THEN [set |-> TRUE, query |-> query, pc |-> pc, err |-> err,
                      scores |-> scores]
                ELSE first
    /\ UNCHANGED globals

\* the iteration deleting the processed postings from the index's own lists
ScoreDoc_deletes_shared ==
    /\ pc = "sweep"
    /\ doc_id < NUM_DOCS
    /\ doc_id \in DOMAIN dnorm
    /\ qnorm * dnorm[doc_id] # 0
    /\ inv_idx' = [term \in DOMAIN inv_idx |->
                     IF /\ term \in DOMAIN qry
                        /\ inv_idx[term] # <<>>
                        /\ inv_idx[term][1][1] = doc_id
                     THEN Tail(inv_idx[term]) ELSE inv_idx[term]]
    /\ scores' = [d \in DOMAIN scores \cup {doc_id} |->
                    IF d = doc_id THEN TrueDiv(score, qnorm * dnorm[doc_id])
                    ELSE scores[d]]
    /\ doc_id' = doc_id + 1
    /\ UNCHANGED <<td_matrix, NUM_DOCS, doclen, dnorm, query, qry, tfidf_q, qnorm,
                   plists, pc, err, first>>

\* one iteration of the document loop that stores a score
ScoreDoc ==
    /\ pc = "sweep"
    /\ doc_id < NUM_DOCS
    /\ doc_id \in DOMAIN dnorm
    /\ qnorm * dnorm[doc_id] # 0
    /\ scores' = [d \in DOMAIN scores \cup {doc_id} |->
                    IF d = doc_id THEN TrueDiv(score, qnorm * dnorm[doc_id])
                    ELSE scores[d]]
    /\ doc_id' = doc_id + 1
    /\ UNCHANGED <<globals, query, qry, tfidf_q, qnorm, plists, pc, err, first>>

\* one iteration of the document loop that raises
ScoreDocRaises ==
    /\ pc = "sweep"
    /\ doc_id < NUM_DOCS
    /\ \/ /\ doc_id \notin DOMAIN dnorm
          /\ err' = "KeyError"
       \/ /\ doc_id \in DOMAIN dnorm
          /\ qnorm * dnorm[doc_id] = 0
          /\ err' = "ZeroDivisionError"
    /\ pc' = "raised"
    /\ UNCHANGED <<globals, query, qry, tfidf_q, qnorm, plists, scores, doc_id, first>>

\* return scores
Return ==
    /\ pc = "sweep"
    /\ doc_id = NUM_DOCS
    /\ pc' = "returned"
    /\ UNCHANGED <<globals, query, qry, tfidf_q, qnorm, plists, scores, doc_id, err, first>>

Next ==
    \/ \E q \in Queries : Call(q)
    \/ ScoreDoc
    \/ ScoreDocRaises
    \/ Return

Spec == Init /\ [][Next]_vars

\* ---------------------------------------------------------------- claims
Docs == 0..(NUM_DOCS - 1)

DocEmpty(d) == \A term \in DOMAIN td_matrix : td_matrix[term][d] = 0

df(term) == Len(postings(term))

Terms == DOMAIN td_matrix \cup Vocab \cup {Unknown}

\* d occurs in the posting list of a term of the query
Matches(d) ==
    \E term \in DOMAIN qry : \E i \in 1..Len(postings(term)) : postings(term)[i][1] = d

\* C1: every finished score_dt call has returned a mapping whose key set is
\* exactly the DocumentIDs 0..N-1, whatever the query.
C1_FullCoverage == Finished => (pc = "returned" /\ DOMAIN scores = Docs)

\* C2: a call whose query normalizer is 0 returns score 0 for every DocumentID
\* and reaches no division by zero.
C2_ZeroQnormScoresZero ==
    (Finished /\ qnorm = 0) =>
        (pc = "returned" /\ \A d \in Docs : d \in DOMAIN scores /\ scores[d] = 0)

\* C3: on the worked example and the query beijing duck recipe the call returns
\* 5 entries with score(4) > score(3), 0 < score(0) < score(4), score(0) < score(1).
C3_WorkedExample ==
    (Finished /\ td_matrix = ExampleMatrix /\ query = ExampleQuery) =>
        /\ pc = "returned"
        /\ DOMAIN scores = 0..4
        /\ scores[4] > scores[3]
        /\ scores[0] > 0
        /\ scores[0] < scores[4]
        /\ scores[0] < scores[1]

\* C4: when the document sweep has ended, every posting of every query term's
\* private posting-list copy has been consumed (the copies are drained).
C4_AllPostingsConsumed ==
    pc = "returned" => \A term \in DOMAIN plists : plists[term] = <<>>

\* C5: with a non-zero query normalizer, a document that is in no query term's
\* posting list gets score exactly 0 from the call.
C5_NonMatchingScoresZero ==
    (Finished /\ qnorm # 0) =>
        \A d \in Docs : ~Matches(d) =>
            (pc = "returned" /\ d \in DOMAIN scores /\ scores[d] = 0)

\* C6: a document whose normalizer is 0 or absent gets score 0 from every call,
\* and the call raises no missing-key or division-by-zero fault.
C6_DegenerateDocScoresZero ==
    Finished =>
        \A d \in Docs : (d \notin DOMAIN dnorm \/ dnorm[d] = 0) =>
            (pc = "returned" /\ d \in DOMAIN scores /\ scores[d] = 0)

\* C7: postings of a term that is no key of the index is the empty sequence,
\* and a term with an empty posting list has idf 0: it enters a call with
\* query weight 0 and an empty posting-list copy.
C7_UnknownTermAbsorbed ==
    /\ \A term \in Terms :
          /\ term \notin DOMAIN inv_idx => postings(term) = <<>>
          /\ postings(term) = <<>> => idf(term) = 0
    /\ pc # "idle" =>
          \A term \in DOMAIN qry :
              postings(term) = <<>> => (tfidf_q[term] = 0 /\ plists[term] = <<>>)

C7_Witness ==
    /\ pc = "sweep"
    /\ Unknown \in DOMAIN qry
    /\ Unknown \notin DOMAIN inv_idx
    /\ tfidf_q[Unknown] = 0
    /\ \E term \in DOMAIN inv_idx : inv_idx[term] = <<>> /\ idf(term) = 0

\* C8: for two terms with document frequencies 0 < df1 < df2 <= N,
\* idf(term1) > idf(term2), idf being ln(N / df).
C8_IdfMonotone ==
    \A t1, t2 \in Terms :
        (0 < df(t1) /\ df(t1) < df(t2) /\ df(t2) <= NUM_DOCS) =>
            /\ idf(t1) > idf(t2)
            /\ idf(t1) = Log(NUM_DOCS, df(t1))
            /\ idf(t2) = Log(NUM_DOCS, df(t2))

C8_Witness ==
    /\ pc = "returned"
    /\ query = ExampleQuery
    /\ df("beijing") < df("recipe") /\ df("recipe") < df("duck")
    /\ tfidf_q["beijing"] > tfidf_q["recipe"]
    /\ tfidf_q["recipe"] > tfidf_q["duck"]
    /\ tfidf_q["duck"] > 0

\* C9: score_dt calls leave the inverted index, doclen and dnorm as they were
\* built, and a later call with the query of the first call ends as the first
\* call did, with the same mapping.
C9_InputsUnchanged ==
    /\ inv_idx = BuildInvIdx(td_matrix, NUM_DOCS)
    /\ doclen = BuildDoclen(td_matrix, NUM_DOCS)
    /\ dnorm = BuildDnorm
    /\ (Finished /\ first.set /\ query = first.query) =>
          (pc = first.pc /\ err = first.err /\ scores = first.scores)

C9_Witness ==
    /\ pc = "returned"
    /\ first.set
    /\ first.pc = "returned"
    /\ query = first.query
    /\ \E term \in DOMAIN plists : plists[term] # <<>>

\* C10 as stated: dnorm(d) >= 0 for every document, and dnorm(d) = 0 only if
\* document d is empty.
C10_DnormZeroOnlyIfEmpty ==
    \A d \in Docs : d \in DOMAIN dnorm =>
        (dnorm[d] >= 0 /\ (dnorm[d] = 0 => DocEmpty(d)))

\* C10 amended: dnorm has an entry exactly for the non-empty documents, every
\* entry is >= 0, and an entry is 0 exactly when every term of the document
\* occurs in all N documents (idf 0).
C10_DnormZeroIffNoWeight ==
    \A d \in Docs :
        /\ d \in DOMAIN dnorm <=> ~DocEmpty(d)
        /\ d \in DOMAIN dnorm =>
              /\ dnorm[d] >= 0
              /\ dnorm[d] = 0 <=>
                    \A term \in DOMAIN td_matrix :
                        td_matrix[term][d] > 0 => df(term) = NUM_DOCS

C10_Witness ==
    /\ \E d \in DOMAIN dnorm : dnorm[d] = 0 /\ ~DocEmpty(d)
    /\ \E d \in DOMAIN dnorm : dnorm[d] > 0

====
